---- MODULE Spec2Model ----
(***************************************************************************)
(* Model of the Maya news-briefing pipeline (backend/app/agents):          *)
(*   - state.py    : the state schema, its reducers and the initial state  *)
(*   - nodes.py    : the node functions, as partial-state writers          *)
(*   - pipeline.py : the graph, its routing functions and the public API   *)
(* The graph is compiled with an in-memory checkpointer and run by a       *)
(* Pregel-style engine: one invocation applies its input to the thread's   *)
(* saved channels, starts at the graph's entry node and runs one superstep *)
(* after the other, saving a checkpoint after each, until no node is       *)
(* scheduled, a node raises, or the superstep limit is hit.                *)
(***************************************************************************)
EXTENDS Integers, Sequences, FiniteSets, TLC

VARIABLES
    checkpoint,   \* MemorySaver: thread id -> latest checkpoint (values, next)
    calls,        \* in-flight API calls: slot -> call record
    submitted,    \* per thread, since its last start_briefing: the review
                  \* submissions made, and how many script rejections in a
                  \* row the last of them ends
    nCalls,       \* API calls started so far
    restarts,     \* times the process was restarted (a new MayaPipeline built)
    mA, mB, mC, mOut,  \* operands and results of the reducer checks
    agents,       \* AgentConfigManager._agents: agent id -> configuration
    flow,         \* AgentConfigManager._pipeline_flow.flow
    handlers,     \* AgentRegistry._handlers: agent id -> handler
    batch,        \* the execute / execute_parallel call in flight
    ret           \* what the last config-manager or registry call returned

vars == <<checkpoint, calls, submitted, nCalls, restarts, mA, mB, mC, mOut,
          agents, flow, handlers, batch, ret>>
pvars == <<checkpoint, calls, submitted, nCalls, restarts>>
mvars == <<mA, mB, mC, mOut>>
avars == <<agents, flow, handlers, batch, ret>>

(***************************************************************************)
(* Bounds of the model                                                     *)
(***************************************************************************)
MaxCalls == 4          \* API calls per behaviour
RecursionLimit == 25   \* supersteps one invocation may take (engine default)
MaxLen == 2            \* length of the lists handed to the reducers

Threads == {"2026-W01-en-SG"}
Slots == {"s1"}

(***************************************************************************)
(* state.py: reducers                                                      *)
(***************************************************************************)
RECURSIVE MergeByKey(_, _, _, _)
\* the loop of merge_news_items / merge_facts: result and seen grow while
\* right is scanned; a falsy key ("") is never added to seen
MergeByKey(result, seen, right, key) ==
    IF right = <<>> THEN result
    ELSE LET item == Head(right)
             k == item[key]
         IN IF k \notin seen
            THEN MergeByKey(Append(result, item),
                            IF k # "" THEN seen \cup {k} ELSE seen,
                            Tail(right), key)
            ELSE MergeByKey(result, seen, Tail(right), key)

\* a merge that starts with nothing seen (the left list is not consulted)
SeenKeysUnseeded(left, key) == {}

SeenKeys(left, key) ==
    {left[i][key] : i \in {j \in 1..Len(left) : left[j][key] # ""}}

merge_news_items(left, right) ==
    MergeByKey(left, SeenKeys(left, "source_url"), right, "source_url")

merge_facts(left, right) ==
    MergeByKey(left, SeenKeys(left, "id"), right, "id")

(***************************************************************************)
(* state.py: the state schema.  Fields of MayaState the routing never      *)
(* reads and no reducer touches (week_number, year, language_code, the     *)
(* per-category id and fact lists, the bridge fields, heygen_video_id,     *)
(* video_duration) are left out; thread_id stands for the input context.   *)
(* "" / 0 / "absent" / -1 stand for a channel that holds no value or None. *)
(***************************************************************************)
EmptyChannels ==
    [thread_id |-> "",
     news_items |-> <<>>,
     extracted_facts |-> <<>>,
     draft_script |-> 0,
     approved_script |-> 0,
     video_url |-> FALSE,
     post_results |-> FALSE,
     design_rationale_records |-> <<>>,
     pending_review_type |-> "none",
     status |-> "absent",
     error |-> "none",
     revision_count |-> -1,
     max_revisions |-> -1]

MaxRevisionsDefault == 3

create_initial_state(thread) ==
    [thread_id |-> thread,
     news_items |-> <<>>,
     extracted_facts |-> <<>>,
     draft_script |-> 0,
     approved_script |-> 0,
     video_url |-> FALSE,
     post_results |-> FALSE,
     design_rationale_records |-> <<>>,
     pending_review_type |-> "none",
     status |-> "aggregating",
     error |-> "none",
     revision_count |-> 0,
     max_revisions |-> MaxRevisionsDefault]

\* state.get("revision_count", 0), state.get("max_revisions", 3)
GetRevisionCount(s) == IF s.revision_count = -1 THEN 0 ELSE s.revision_count
GetMaxRevisions(s) == IF s.max_revisions = -1 THEN 3 ELSE s.max_revisions

\* channels that all keep the last value written
ReduceLastValue(k, old, new) == new

\* the channel of a field: Annotated fields fold writes with their reducer,
\* every other field keeps the last value written
Reduce(k, old, new) ==
    IF k = "news_items" THEN merge_news_items(old, new)
    ELSE IF k = "extracted_facts" THEN merge_facts(old, new)
    ELSE new

\* one partial state written into the channels; keys that are not fields of
\* the schema are dropped
ApplyWrite(s, w) ==
    [k \in DOMAIN s |-> IF k \in DOMAIN w THEN Reduce(k, s[k], w[k]) ELSE s[k]]

RECURSIVE ApplyWrites(_, _)
ApplyWrites(s, ws) ==
    IF ws = <<>> THEN s ELSE ApplyWrites(ApplyWrite(s, Head(ws)), Tail(ws))

(***************************************************************************)
(* nodes.py: each node as the partial state it returns.  ok is the outcome *)
(* of the external collaborator the node calls (aggregator, LLM, notifier, *)
(* HeyGen, Blotato); id is a value no earlier step has used (uuid4).  A    *)
(* node that lets an exception escape returns Raise.                       *)
(***************************************************************************)
Raise == [raises |-> TRUE, writes |-> <<>>]
Return(w) == [raises |-> FALSE, writes |-> w]

\* the articles the aggregator finds: two URLs under one title
Feed == << [source_url |-> "u1", title |-> "budget 2026"],
           [source_url |-> "u2", title |-> "budget 2026"] >>

aggregate_news(s, ok, id) ==
    IF ok
    THEN Return([news_items |->
                    [i \in 1..Len(Feed) |->
                        [id |-> id \o "-" \o ToString(i),
                         source_url |-> Feed[i].source_url,
                         title |-> Feed[i].title]],
                 status |-> "categorizing"])
    ELSE Return([error |-> "aggregation", status |-> "failed"])

\* title_key of deduplicate_articles (titles of the model are lower-case and
\* shorter than 50 characters)
TitleKey(item) == item.title

RECURSIVE UniqueByTitle(_, _, _)
UniqueByTitle(items, seen, acc) ==
    IF items = <<>> THEN acc
    ELSE IF TitleKey(Head(items)) \in seen
         THEN UniqueByTitle(Tail(items), seen, acc)
         ELSE UniqueByTitle(Tail(items), seen \cup {TitleKey(Head(items))},
                            Append(acc, Head(items)))

deduplicate_articles(s) ==
    Return([news_items |-> UniqueByTitle(s.news_items, {}, <<>>)])

categorize_articles(s) ==
    Return([news_items |-> s.news_items, status |-> "synthesizing"])

detect_bridge_opportunities(s) == Return([bridge_opportunities |-> <<>>])

select_best_bridge(s) == Return([selected_bridge |-> "none"])

\* extract_local_facts / extract_business_facts / extract_ai_facts: one fact
\* with a fresh id per run when there are news items to read
extract_facts(s, category, ok, id) ==
    LET facts == IF s.news_items # <<>>
                 THEN << [id |-> id \o "-" \o category, category |-> category] >>
                 ELSE <<>>
    IN Return([facts_of_category |-> facts, extracted_facts |-> facts])

\* project_*_persona: the LLM call is not guarded; the segment is returned
\* under a key that is no field of MayaState
project_persona(s, segment, ok) ==
    IF ok THEN Return([_segment |-> segment]) ELSE Raise

compile_full_script(s, ok) ==
    IF ok
    THEN Return([draft_script |-> IF s.draft_script # 0
                                  THEN s.draft_script + 1 ELSE 1,
                 status |-> "awaiting_script_approval"])
    ELSE Raise

revise_script(s) ==
    LET script_drrs == SelectSeq(s.design_rationale_records,
                                 LAMBDA d : d.review_type = "script" /\ ~d.approved)
    IN IF script_drrs = <<>> THEN Return(<<>>)
       ELSE IF s.draft_script = 0 THEN Raise
       ELSE Return([_segment |-> "revised"])

\* a gate that forgets to record which review is pending
script_review_gate_no_pending(s) ==
    IF s.thread_id = "" THEN Raise
    ELSE Return([status |-> "awaiting_script_approval"])

script_review_gate(s) ==
    IF s.thread_id = "" THEN Raise
    ELSE Return([status |-> "awaiting_script_approval",
                 pending_review_type |-> "script"])

video_review_gate(s) ==
    IF s.thread_id = "" \/ s.approved_script = 0 THEN Raise
    ELSE Return([status |-> "awaiting_video_approval",
                 pending_review_type |-> "video"])

generate_video(s, ok) ==
    IF ok /\ s.approved_script # 0
    THEN Return([video_url |-> TRUE, status |-> "awaiting_video_approval"])
    ELSE Return([error |-> "video_generation", status |-> "failed"])

publish_to_social(s, ok) ==
    IF ok
    THEN Return([post_results |-> TRUE, status |-> "completed"])
    ELSE Return([error |-> "publishing", status |-> "failed"])

(***************************************************************************)
(* pipeline.py: the graph                                                  *)
(***************************************************************************)
ExtractNodes == {"extract_local_facts", "extract_business_facts", "extract_ai_facts"}
ProjectNodes == {"project_local", "project_business", "project_ai"}

\* the nodes added by _build_graph, in the order the engine applies the
\* writes of one superstep (by node name)
NodeOrder ==
    << "aggregate", "categorize", "compile_script", "deduplicate",
       "detect_bridges", "extract_ai_facts", "extract_business_facts",
       "extract_local_facts", "generate_video", "project_ai",
       "project_business", "project_local", "publish", "revise_script",
       "script_review", "select_bridge", "video_review" >>

Nodes == {NodeOrder[i] : i \in 1..Len(NodeOrder)}

\* nodes on the path from START up to the script gate
BeforeScriptGate ==
    {"aggregate", "deduplicate", "categorize", "detect_bridges", "select_bridge"}
        \cup ExtractNodes \cup ProjectNodes

\* routing that takes any recorded script review for an approval
route_ignoring_decision(s) ==
    LET script_drrs == SelectSeq(s.design_rationale_records,
                                 LAMBDA d : d.review_type = "script")
    IN IF script_drrs = <<>> THEN "end" ELSE "generate_video"

\* routing that names the failed status when the revision limit is reached
route_failed_at_limit(s) ==
    LET script_drrs == SelectSeq(s.design_rationale_records,
                                 LAMBDA d : d.review_type = "script")
    IN IF script_drrs = <<>> THEN "end"
       ELSE IF script_drrs[Len(script_drrs)].approved THEN "generate_video"
       ELSE IF GetRevisionCount(s) >= GetMaxRevisions(s) THEN "failed"
       ELSE "revise_script"

\* the path maps given to add_conditional_edges
ScriptRouteTargets == {"generate_video", "revise_script", "end"}
VideoRouteTargets == {"publish", "end"}

_route_after_script_review(s) ==
    LET script_drrs == SelectSeq(s.design_rationale_records,
                                 LAMBDA d : d.review_type = "script")
    IN IF script_drrs = <<>> THEN "end"
       ELSE IF script_drrs[Len(script_drrs)].approved THEN "generate_video"
       ELSE IF GetRevisionCount(s) >= GetMaxRevisions(s) THEN "end"
       ELSE "revise_script"

_route_after_video_review(s) ==
    LET video_drrs == SelectSeq(s.design_rationale_records,
                                LAMBDA d : d.review_type = "video")
    IN IF video_drrs = <<>> THEN "end"
       ELSE IF video_drrs[Len(video_drrs)].approved THEN "publish"
       ELSE "end"

\* an edge table that lacks the edge from compile_script to script_review
SuccessorsNoGateEdge(n, s) ==
    CASE n = "__start__" -> {"aggregate"}
      [] n = "aggregate" -> {"deduplicate"}
      [] n = "deduplicate" -> {"categorize"}
      [] n = "categorize" -> {"detect_bridges"}
      [] n = "detect_bridges" -> {"select_bridge"}
      [] n = "select_bridge" -> ExtractNodes
      [] n = "extract_local_facts" -> {"project_local"}
      [] n = "extract_business_facts" -> {"project_business"}
      [] n = "extract_ai_facts" -> {"project_ai"}
      [] n \in ProjectNodes -> {"compile_script"}
      [] n = "compile_script" -> {}
      [] n = "script_review" ->
            {_route_after_script_review(s)} \ {"end"}
      [] n = "revise_script" -> {"compile_script"}
      [] n = "generate_video" -> {"video_review"}
      [] n = "video_review" ->
            {_route_after_video_review(s)} \ {"end"}
      [] n = "publish" -> {}

\* the edge table of _build_graph: the nodes scheduled after node n, s being
\* the state with the writes of n's superstep applied
Successors(n, s) ==
    CASE n = "__start__" -> {"aggregate"}
      [] n = "aggregate" -> {"deduplicate"}
      [] n = "deduplicate" -> {"categorize"}
      [] n = "categorize" -> {"detect_bridges"}
      [] n = "detect_bridges" -> {"select_bridge"}
      [] n = "select_bridge" -> ExtractNodes
      [] n = "extract_local_facts" -> {"project_local"}
      [] n = "extract_business_facts" -> {"project_business"}
      [] n = "extract_ai_facts" -> {"project_ai"}
      [] n \in ProjectNodes -> {"compile_script"}
      [] n = "compile_script" -> {"script_review"}
      [] n = "script_review" ->
            {_route_after_script_review(s)} \ {"end"}
      [] n = "revise_script" -> {"compile_script"}
      [] n = "generate_video" -> {"video_review"}
      [] n = "video_review" ->
            {_route_after_video_review(s)} \ {"end"}
      [] n = "publish" -> {}

\* the node function registered under a name
RunNode(n, s, ok, id) ==
    CASE n = "aggregate" -> aggregate_news(s, ok, id)
      [] n = "deduplicate" -> deduplicate_articles(s)
      [] n = "categorize" -> categorize_articles(s)
      [] n = "detect_bridges" -> detect_bridge_opportunities(s)
      [] n = "select_bridge" -> select_best_bridge(s)
      [] n = "extract_ai_facts" -> extract_facts(s, "ai_tech", ok, id)
      [] n = "extract_business_facts" -> extract_facts(s, "business", ok, id)
      [] n = "extract_local_facts" -> extract_facts(s, "local", ok, id)
      [] n = "project_local" -> project_persona(s, "local", ok)
      [] n = "project_business" -> project_persona(s, "business", ok)
      [] n = "project_ai" -> project_persona(s, "ai_tech", ok)
      [] n = "compile_script" -> compile_full_script(s, ok)
      [] n = "revise_script" -> revise_script(s)
      [] n = "script_review" -> script_review_gate(s)
      [] n = "video_review" -> video_review_gate(s)
      [] n = "generate_video" -> generate_video(s, ok)
      [] n = "publish" -> publish_to_social(s, ok)

(***************************************************************************)
(* config.py: the agent configurations and the pipeline flow.  An agent    *)
(* configuration keeps the fields the manager and the registry read        *)
(* (enabled, depends_on); configured is FALSE for an id that is no key of  *)
(* _agents.  A flow item is one agent id or a parallel group of ids.       *)
(***************************************************************************)
DefaultIds ==
    {"aggregate", "deduplicate", "categorize", "synthesize_local",
     "synthesize_business", "synthesize_ai", "generate_scripts",
     "script_approval", "generate_video", "video_approval", "publish"}

\* ids a caller may name besides the defaults: one that register_agent adds
\* and one that is never configured
AgentIds == DefaultIds \cup {"custom", "ghost"}

AgentConfig(enabled, depends_on) ==
    [configured |-> TRUE, enabled |-> enabled, depends_on |-> depends_on]

NoAgent == [configured |-> FALSE, enabled |-> FALSE, depends_on |-> <<>>]

DEFAULT_AGENTS ==
    [a \in AgentIds |->
        CASE a \in {"aggregate", "deduplicate", "categorize"} ->
                AgentConfig(TRUE, <<>>)
          [] a \in {"synthesize_local", "synthesize_business", "synthesize_ai"} ->
                AgentConfig(TRUE, <<"categorize">>)
          [] a = "generate_scripts" ->
                AgentConfig(TRUE, <<"synthesize_local", "synthesize_business",
                                    "synthesize_ai">>)
          [] a = "script_approval" -> AgentConfig(TRUE, <<"generate_scripts">>)
          [] a = "generate_video" -> AgentConfig(TRUE, <<"script_approval">>)
          [] a = "video_approval" -> AgentConfig(TRUE, <<"generate_video">>)
          [] a = "publish" -> AgentConfig(TRUE, <<"video_approval">>)
          [] OTHER -> NoAgent]

Single(a) == [group |-> FALSE, ids |-> <<a>>]
Group(ids) == [group |-> TRUE, ids |-> ids]

DEFAULT_PIPELINE_FLOW ==
    << Single("aggregate"), Single("deduplicate"), Single("categorize"),
       Group(<<"synthesize_local", "synthesize_business", "synthesize_ai">>),
       Single("generate_scripts"), Single("script_approval"),
       Single("generate_video"), Single("video_approval"), Single("publish") >>

\* AgentConfigManager.get_agent: None for an id that is not configured
get_agent(ag, a) == IF a \in DOMAIN ag /\ ag[a].configured THEN ag[a] ELSE NoAgent

\* a filter that looks at the configuration only, not at its enabled flag
IsConfigured(ag, a) == get_agent(ag, a).configured

\* "self.get_agent(a) and self.get_agent(a).enabled"
IsEnabled(ag, a) == get_agent(ag, a).configured /\ get_agent(ag, a).enabled

RECURSIVE get_execution_order(_, _)
get_execution_order(ag, fl) ==
    IF fl = <<>> THEN <<>>
    ELSE LET item == Head(fl)
             rest == get_execution_order(ag, Tail(fl))
         IN IF item.group
            THEN LET enabled == SelectSeq(item.ids, LAMBDA a : IsEnabled(ag, a))
                 IN IF enabled # <<>> THEN << enabled >> \o rest ELSE rest
            ELSE IF IsEnabled(ag, item.ids[1])
                 THEN << << item.ids[1] >> >> \o rest ELSE rest

\* no execute / execute_parallel call in flight; nothing returned yet
NoBatch == [api |-> "none", ids |-> <<>>, tasks |-> <<>>]
NoReturn == [api |-> "none", kind |-> "none"]

\* the configuration manager and the registry as constructed
AgentsInit ==
    /\ agents = DEFAULT_AGENTS
    /\ flow = DEFAULT_PIPELINE_FLOW
    /\ handlers = <<>>
    /\ batch = NoBatch
    /\ ret = NoReturn

(***************************************************************************)
(* The engine: checkpoints and invocations                                 *)
(***************************************************************************)
NoCheckpoint == [exists |-> FALSE, values |-> EmptyChannels, next |-> {}]

Idle ==
    [phase |-> "idle", api |-> "none", thread |-> "", approved |-> FALSE,
     no |-> 0, rejection_no |-> 0, paused_at |-> "none", during |-> {},
     input |-> <<>>,
     values |-> EmptyChannels, next |-> {}, step |-> 0, trace |-> <<>>,
     sent |-> <<>>]

\* MayaPipeline.get_state
get_state(t) ==
    IF checkpoint[t].exists THEN checkpoint[t].values ELSE EmptyChannels
HasState(t) == checkpoint[t].exists

\* a value unique to one step of one invocation
Uuid(no, step) == ToString(no) \o "-" \o ToString(step)

\* the gate a thread is paused at: its last run ended (no node scheduled)
\* with a review pending
PausedAt(t) ==
    IF checkpoint[t].exists /\ checkpoint[t].next = {}
    THEN checkpoint[t].values.pending_review_type ELSE "none"

\* the numbers of the calls in flight on thread t
InFlight(t) ==
    {calls[d].no : d \in {e \in DOMAIN calls :
                            calls[e].phase = "running" /\ calls[e].thread = t}}

\* graph.ainvoke(input, config): the call schedules the entry step, which
\* loads the thread's channels and writes the input into them.  trace is the
\* list of the supersteps the call has run and sent the approval requests of
\* the last one; rejection_no, paused_at and during record what the call was
\* made on.
Invoke(c, t, api, approved, input, rejection_no) ==
    /\ calls' = [calls EXCEPT ![c] =
                    [phase |-> "running", api |-> api, thread |-> t,
                     approved |-> approved, no |-> nCalls + 1,
                     rejection_no |-> rejection_no, paused_at |-> PausedAt(t),
                     during |-> InFlight(t), input |-> input,
                     values |-> checkpoint[t].values, next |-> {"__start__"},
                     step |-> 0, trace |-> <<>>, sent |-> <<>>]]
    /\ nCalls' = nCalls + 1

SlotFree(c) == calls[c].phase # "running"

\* a checkpointer that keeps one checkpoint for all threads
put_shared(saved, t, cp) == [u \in DOMAIN saved |-> cp]

\* MemorySaver.put: the checkpoint is stored under the thread id of the
\* call's config
put(saved, t, cp) == [saved EXCEPT ![t] = cp]

Init ==
    /\ checkpoint = [t \in Threads |-> NoCheckpoint]
    /\ calls = [c \in Slots |-> Idle]
    /\ submitted = [t \in Threads |-> [reviews |-> 0, rejections |-> 0]]
    /\ nCalls = 0
    /\ restarts = 0
    /\ mA = <<>> /\ mB = <<>> /\ mC = <<>>
    /\ mOut = [kind |-> "none", done |-> FALSE]
    /\ AgentsInit

StartBriefing(c, t) ==
    /\ SlotFree(c)
    /\ nCalls < MaxCalls
    /\ Invoke(c, t, "start", FALSE, create_initial_state(t), 0)
    /\ submitted' = [submitted EXCEPT ![t] = [reviews |-> 0, rejections |-> 0]]
    /\ UNCHANGED <<checkpoint, restarts, mvars, avars>>

SubmitScriptReview(c, t, approved) ==
    LET drr == [id |-> Uuid(nCalls + 1, 0), review_type |-> "script",
                thread_id |-> t, approved |-> approved]
        current_state == get_state(t)
        base == [design_rationale_records |-> << drr >>,
                 pending_review_type |-> "none"]
        update ==
            IF approved
            THEN base @@ [approved_script |->
                             IF HasState(t) THEN current_state.draft_script ELSE 0,
                          status |-> "generating_video"]
            ELSE base @@ [revision_count |->
                             IF HasState(t)
                             THEN GetRevisionCount(current_state) + 1 ELSE 1,
                          status |-> "synthesizing"]
    IN /\ SlotFree(c)
       /\ nCalls < MaxCalls
       /\ Invoke(c, t, "script", approved, update,
                 IF approved THEN 0 ELSE submitted[t].rejections + 1)
       /\ submitted' = [submitted EXCEPT
                           ![t].reviews = @ + 1,
                           ![t].rejections = IF approved THEN 0 ELSE @ + 1]
       /\ UNCHANGED <<checkpoint, restarts, mvars, avars>>

SubmitVideoReview(c, t, approved) ==
    LET drr == [id |-> Uuid(nCalls + 1, 0), review_type |-> "video",
                thread_id |-> t, approved |-> approved]
        update == [design_rationale_records |-> << drr >>,
                   pending_review_type |-> "none",
                   status |-> IF approved THEN "publishing" ELSE "failed"]
    IN /\ SlotFree(c)
       /\ nCalls < MaxCalls
       /\ Invoke(c, t, "video", approved, update, 0)
       /\ submitted' = [submitted EXCEPT ![t].reviews = @ + 1,
                                         ![t].rejections = 0]
       /\ UNCHANGED <<checkpoint, restarts, mvars, avars>>

\* the entry step of an invocation: the input is written into the channels
\* and the first checkpoint of the run is saved
EntryStep(c) ==
    LET call == calls[c]
        values == ApplyWrite(checkpoint[call.thread].values, call.input)
        next == Successors("__start__", values)
    IN /\ call.phase = "running"
       /\ call.next = {"__start__"}
       /\ calls' = [calls EXCEPT ![c].values = values, ![c].next = next]
       /\ checkpoint' = put(checkpoint, call.thread,
                             [exists |-> TRUE, values |-> values, next |-> next])
       /\ UNCHANGED <<submitted, nCalls, restarts, mvars, avars>>

\* the step limit is hit with nodes still scheduled: GraphRecursionError
RecursionError(c) ==
    LET call == calls[c]
    IN /\ call.phase = "running"
       /\ call.next # {"__start__"}
       /\ call.step >= RecursionLimit
       /\ calls' = [calls EXCEPT ![c].phase = "raised"]
       /\ UNCHANGED <<checkpoint, submitted, nCalls, restarts, mvars, avars>>

\* a notification service whose failure to deliver escapes as an exception
send_approval_request_raising(delivered) ==
    [raises |-> ~delivered, result |-> delivered]

\* NotificationService.send_script_approval_request and
\* send_video_approval_request: one attempt over Slack or Telegram; a failure
\* to deliver is caught and reported by the result False (as is a missing
\* configuration), never by an exception
send_approval_request(delivered) == [raises |-> FALSE, result |-> delivered]

GateNodes == {"script_review", "video_review"}
GateOf(n) == IF n = "script_review" THEN "script" ELSE "video"

\* one superstep: the scheduled nodes run on the same snapshot of the
\* channels, their writes are applied together, the successors are scheduled
\* and the checkpoint is saved.  A gate that has read its arguments sends its
\* approval request and ignores the result.  When a node raises, the
\* invocation ends with that exception and the checkpoint of the previous
\* superstep stays.
Superstep(c, ok, delivered) ==
    LET call == calls[c]
        t == call.thread
        order == SelectSeq(NodeOrder, LAMBDA n : n \in call.next)
        results == [i \in 1..Len(order) |->
                       RunNode(order[i], call.values, ok, Uuid(call.no, call.step + 1))]
        gates == SelectSeq(order, LAMBDA n :
                    /\ n \in GateNodes
                    /\ ~RunNode(n, call.values, ok, Uuid(call.no, call.step + 1)).raises)
        sent == [i \in 1..Len(gates) |->
                    [gate |-> GateOf(gates[i]),
                     delivered |-> send_approval_request(delivered).result]]
        raised == \/ \E i \in 1..Len(order) : results[i].raises
                  \/ gates # <<>> /\ send_approval_request(delivered).raises
        values == ApplyWrites(call.values,
                              [i \in 1..Len(order) |-> results[i].writes])
        next == UNION {Successors(n, values) : n \in call.next}
    IN /\ call.phase = "running"
       /\ call.next # {"__start__"}
       /\ call.step < RecursionLimit
       /\ IF raised
          THEN /\ calls' = [calls EXCEPT ![c].phase = "raised",
                                         ![c].trace = Append(@, call.next),
                                         ![c].sent = sent]
               /\ UNCHANGED checkpoint
          ELSE /\ calls' = [calls EXCEPT
                               ![c].phase = IF next = {} THEN "returned" ELSE "running",
                               ![c].values = values,
                               ![c].next = next,
                               ![c].step = @ + 1,
                               ![c].trace = Append(@, call.next),
                               ![c].sent = sent]
               /\ checkpoint' = put(checkpoint, t,
                                     [exists |-> TRUE, values |-> values, next |-> next])
       /\ UNCHANGED <<submitted, nCalls, restarts, mvars, avars>>

\* the nodes whose collaborator (news sources, LLM, HeyGen, social media) can
\* fail, and the outcomes to draw for a superstep that runs the nodes of next
CollaboratorNodes ==
    {"aggregate", "compile_script", "generate_video", "publish"} \cup ProjectNodes
Answers(next) == IF next \cap CollaboratorNodes = {} THEN {TRUE} ELSE BOOLEAN
Deliveries(next) == IF next \cap GateNodes = {} THEN {TRUE} ELSE BOOLEAN

Next ==
    \/ \E c \in DOMAIN calls, t \in DOMAIN checkpoint : StartBriefing(c, t)
    \/ \E c \in DOMAIN calls, t \in DOMAIN checkpoint, approved \in BOOLEAN :
            SubmitScriptReview(c, t, approved)
    \/ \E c \in DOMAIN calls, t \in DOMAIN checkpoint, approved \in BOOLEAN :
            SubmitVideoReview(c, t, approved)
    \/ \E c \in DOMAIN calls : EntryStep(c)
    \/ \E c \in DOMAIN calls :
         \E ok \in Answers(calls[c].next), delivered \in Deliveries(calls[c].next) :
            Superstep(c, ok, delivered)
    \/ \E c \in DOMAIN calls : RecursionError(c)

Spec == Init /\ [][Next]_vars

(***************************************************************************)
(* Properties of the pipeline                                              *)
(***************************************************************************)
\* node n ran in call c; how often it ran
Ran(c, n) == \E i \in 1..Len(calls[c].trace) : n \in calls[c].trace[i]
Runs(c, n) == Cardinality({i \in 1..Len(calls[c].trace) : n \in calls[c].trace[i]})

\* the latest decision record of a review type approves
LatestApproved(s, review_type) ==
    LET ds == SelectSeq(s.design_rationale_records,
                        LAMBDA d : d.review_type = review_type)
    IN ds # <<>> /\ ds[Len(ds)].approved

\* MayaPipeline.get_review_history
get_review_history(t) ==
    IF HasState(t) THEN get_state(t).design_rationale_records ELSE <<>>

FirstStartDone(c) ==
    /\ nCalls = 1
    /\ calls[c].api = "start"
    /\ calls[c].phase = "returned"
    /\ calls[c].values.error = "none"

C4_RejectionsUpToMaxRevise ==
    \A c \in DOMAIN calls :
        (/\ calls[c].api = "script" /\ ~calls[c].approved
         /\ calls[c].phase = "returned") =>
            /\ calls[c].rejection_no <= GetMaxRevisions(calls[c].values) =>
                    Ran(c, "revise_script")
            /\ calls[c].rejection_no = GetMaxRevisions(calls[c].values) + 1 =>
                    ~Ran(c, "revise_script")

\* C5: revise_script runs at most max_revisions times.
C5_ReviseAtMostMax ==
    \A c \in DOMAIN calls :
        Runs(c, "revise_script") <= GetMaxRevisions(calls[c].values)

\* C6: a script review submitted to a thread paused at the script gate runs
\* generate_video or revise_script first and runs no node that lies before
\* the gate.
C6_ResumesAfterGate ==
    \A c \in DOMAIN calls :
        (/\ calls[c].api = "script" /\ calls[c].paused_at = "script"
         /\ calls[c].trace # <<>>) =>
            /\ calls[c].trace[1] \subseteq {"generate_video", "revise_script"}
            /\ \A n \in BeforeScriptGate : ~Ran(c, n)

\* C7: once a submission's input is written, the thread's review history
\* holds one record per review submitted to the run.
C7_OneRecordPerSubmission ==
    \A t \in DOMAIN checkpoint :
        (/\ HasState(t) /\ get_state(t).thread_id = t
         /\ \A c \in DOMAIN calls :
                ~(calls[c].phase = "running" /\ calls[c].next = {"__start__"})) =>
            Len(get_review_history(t)) = submitted[t].reviews

\* publish is never scheduled
PublishNeverRuns ==
    \A c \in DOMAIN calls : "publish" \notin calls[c].next /\ ~Ran(c, "publish")

\* C18: a review submitted to a thread that is not paused at the gate of
\* that review (or has no checkpoint) runs no node, writes no checkpoint
\* and does not return normally.
C18_SubmitNeedsPause ==
    \A c \in DOMAIN calls :
        (calls[c].api \in {"script", "video"} /\ calls[c].paused_at # calls[c].api) =>
            /\ calls[c].trace = <<>>
            /\ calls[c].next = {"__start__"}
            /\ calls[c].phase # "returned"

\* the statuses of PipelineStatus at which a run is over
TerminalStatuses == {"completed", "failed"}

\* C21: a script rejection that takes revision_count to max_revisions or
\* beyond is not ended by the engine's step limit, and when it returns it
\* leaves the thread in a terminal status.  (A call ended by the exception of
\* a collaborator that failed is left aside.)
C21_RejectionAtLimitTerminates ==
    \A c \in DOMAIN calls :
        (/\ calls[c].api = "script" /\ ~calls[c].approved
         /\ calls[c].input.revision_count >= GetMaxRevisions(calls[c].values)) =>
            /\ calls[c].phase = "raised" => calls[c].step < RecursionLimit
            /\ calls[c].phase = "returned" =>
                  /\ calls[c].values.status \in TerminalStatuses
                  /\ get_state(calls[c].thread).status \in TerminalStatuses

\* C22: a video approval submitted to a thread paused at the video gate,
\* when it returns, has run publish exactly once and left the status
\* completed.
C22_VideoApprovalPublishes ==
    \A c \in DOMAIN calls :
        (/\ calls[c].api = "video" /\ calls[c].approved
         /\ calls[c].paused_at = "video"
         /\ calls[c].phase = "returned") =>
            /\ Runs(c, "publish") = 1
            /\ calls[c].values.status = "completed"

\* the partial states the persona projections of call c returned in the
\* superstep it ran last
ProjectionWrites(c) ==
    [n \in ProjectNodes |->
        RunNode(n, calls[c].values, TRUE, Uuid(calls[c].no, calls[c].step)).writes]

\* compile_script is about to start in call c, the persona projections having
\* run in the superstep before
CompileScheduled(c) ==
    /\ calls[c].phase = "running"
    /\ "compile_script" \in calls[c].next
    /\ calls[c].trace # <<>>
    /\ calls[c].trace[Len(calls[c].trace)] # {"revise_script"}

\* compile_script is scheduled alone, after a superstep in which the three
\* persona projections ran together or after revise_script, and in both cases
\* the three projections have run in the call
CompileAfterProjections ==
    \A c \in DOMAIN calls :
        (calls[c].phase = "running" /\ "compile_script" \in calls[c].next) =>
            /\ calls[c].next = {"compile_script"}
            /\ calls[c].trace # <<>>
            /\ calls[c].trace[Len(calls[c].trace)] \in {ProjectNodes, {"revise_script"}}
            /\ \A n \in ProjectNodes : Ran(c, n)
            /\ checkpoint[calls[c].thread].next = {"compile_script"}

\* C24: when compile_script is about to start, the three persona projections
\* have run and every key they returned is held by the state compile_script
\* reads.
C24_CompileSeesProjections ==
    \A c \in DOMAIN calls :
        CompileScheduled(c) =>
            /\ calls[c].trace[Len(calls[c].trace)] = ProjectNodes
            /\ \A n \in ProjectNodes : \A k \in DOMAIN ProjectionWrites(c)[n] :
                    /\ k \in DOMAIN calls[c].values
                    /\ calls[c].values[k] = ProjectionWrites(c)[n][k]

\* the approval request of call c's last superstep was sent and not delivered
RequestFailed(c, gate) ==
    \E i \in 1..Len(calls[c].sent) :
        calls[c].sent[i].gate = gate /\ ~calls[c].sent[i].delivered

C25_WitnessVideo ==
    \E c \in DOMAIN calls :
        /\ calls[c].phase = "returned"
        /\ calls[c].sent = << [gate |-> "video", delivered |-> FALSE] >>
        /\ PausedAt(calls[c].thread) = "video"

\* C27: when generate_video has failed, leaving the status failed with
\* video_review scheduled, the next step of the call sends no approval
\* request and leaves the thread's status failed.
C27_NoRequestAfterVideoFailure ==
    [][\A c \in DOMAIN calls :
          (/\ calls[c].phase = "running"
           /\ calls[c].next = {"video_review"}
           /\ calls[c].values.status = "failed"
           /\ calls'[c] # calls[c]) =>
              /\ calls'[c].sent = <<>>
              /\ get_state(calls[c].thread)'.status = "failed"]_vars

\* C28: in the state the deduplicate superstep leaves, no two entries of
\* news_items have the same title key.
C28_NoDuplicateTitles ==
    \A c \in DOMAIN calls :
        (calls[c].trace # <<>>
           /\ calls[c].trace[Len(calls[c].trace)] = {"deduplicate"}) =>
            \A i, j \in 1..Len(calls[c].values.news_items) :
                TitleKey(calls[c].values.news_items[i])
                    = TitleKey(calls[c].values.news_items[j]) => i = j

\* C30: on the state of every thread and of every call, at every point of a
\* run, _route_after_script_review gives a target of its path map
\* (generate_video, revise_script, end) and _route_after_video_review one of
\* its own (publish, end).
C30_RoutesStayInEdgeTable ==
    /\ \A t \in DOMAIN checkpoint :
          /\ _route_after_script_review(get_state(t)) \in ScriptRouteTargets
          /\ _route_after_video_review(get_state(t)) \in VideoRouteTargets
    /\ \A c \in DOMAIN calls :
          /\ _route_after_script_review(calls[c].values) \in ScriptRouteTargets
          /\ _route_after_video_review(calls[c].values) \in VideoRouteTargets

\* C30 witness: the script gate has just run in a rejection made at the
\* revision limit, where the route is decided by the counter, and the video
\* route on the same state finds no video decision
C30_Witness ==
    \E c \in DOMAIN calls :
        /\ calls[c].api = "script" /\ ~calls[c].approved
        /\ calls[c].trace # <<>>
        /\ calls[c].trace[Len(calls[c].trace)] = {"script_review"}
        /\ GetRevisionCount(calls[c].values) >= GetMaxRevisions(calls[c].values)
        /\ _route_after_script_review(calls[c].values) = "end"
        /\ _route_after_video_review(calls[c].values) = "end"

\* how often item x occurs in list l
Occurrences(l, x) == Cardinality({i \in 1..Len(l) : l[i] = x})

\* the orders in which the nodes of S can hand over their writes
Orders(S) ==
    {o \in [1..Cardinality(S) -> S] : \A i, j \in 1..Cardinality(S) :
                                          i # j => o[i] # o[j]}

\* the facts the extract nodes of call c return in the superstep numbered step
StageFacts(c, step) ==
    [n \in ExtractNodes |->
        RunNode(n, calls[c].values, TRUE, Uuid(calls[c].no, step)).writes.extracted_facts]

\* C11: the three extract nodes run in one superstep, and extracted_facts
\* after it holds each fact they returned exactly once: in the state the
\* superstep leaves, and for every order in which the three writes could be
\* applied to the state it starts from.
C11_ParallelFactsOnce ==
    \A c \in DOMAIN calls :
        /\ \A i \in 1..Len(calls[c].trace) :
                calls[c].trace[i] \cap ExtractNodes # {} =>
                    calls[c].trace[i] = ExtractNodes
        /\ (calls[c].trace # <<>>
              /\ calls[c].trace[Len(calls[c].trace)] = ExtractNodes) =>
                \A n \in ExtractNodes :
                    \A i \in 1..Len(StageFacts(c, calls[c].step)[n]) :
                        Occurrences(calls[c].values.extracted_facts,
                                    StageFacts(c, calls[c].step)[n][i]) = 1
        /\ (calls[c].phase = "running" /\ calls[c].next = ExtractNodes) =>
                \A o \in Orders(ExtractNodes) :
                    LET facts == StageFacts(c, calls[c].step + 1)
                        after == ApplyWrites(calls[c].values,
                                    [i \in 1..3 |-> [extracted_facts |-> facts[o[i]]]])
                    IN \A n \in ExtractNodes :
                        \A i \in 1..Len(facts[n]) :
                            Occurrences(after.extracted_facts, facts[n][i]) = 1

\* C11 witness: the extract stage has run for the second time on a thread,
\* each node returning a fact, and the list holds the facts of both runs
C11_Witness ==
    \E c \in DOMAIN calls :
        /\ calls[c].api = "script"
        /\ calls[c].trace # <<>>
        /\ calls[c].trace[Len(calls[c].trace)] = ExtractNodes
        /\ \A n \in ExtractNodes : Len(StageFacts(c, calls[c].step)[n]) = 1
        /\ Len(calls[c].values.extracted_facts) = 6

(***************************************************************************)
(* The reducers on their own: a, b and c are drawn from the lists of items *)
(* the nodes can hand to them, and one step merges them in every grouping. *)
(***************************************************************************)
\* news items as aggregate_news builds them: source_url is "" when the
\* article has no URL; two items may carry the same URL
NewsUniverse ==
    { [source_url |-> "", id |-> "n0"],
      [source_url |-> "u1", id |-> "n1"],
      [source_url |-> "u1", id |-> "n2"],
      [source_url |-> "u2", id |-> "n3"] }

\* facts as ExtractedFact.model_dump() gives them: the id is never empty
FactUniverse ==
    { [id |-> "f1", claim |-> "x"],
      [id |-> "f1", claim |-> "y"],
      [id |-> "f2", claim |-> "x"] }

Lists(U) == UNION {[1..n -> U] : n \in 0..MaxLen}

InitMerge ==
    /\ checkpoint = [t \in Threads |-> NoCheckpoint]
    /\ calls = [c \in Slots |-> Idle]
    /\ submitted = [t \in Threads |-> [reviews |-> 0, rejections |-> 0]]
    /\ nCalls = 0
    /\ restarts = 0
    /\ AgentsInit
    /\ \E kind \in {"news", "facts"} :
        LET U == IF kind = "news" THEN NewsUniverse ELSE FactUniverse
        IN /\ mA \in Lists(U) /\ mB \in Lists(U) /\ mC \in Lists(U)
           /\ mOut = [kind |-> kind, done |-> FALSE]

MergeNews ==
    /\ mOut.kind = "news" /\ ~mOut.done
    /\ mOut' = [kind |-> "news", done |-> TRUE,
                ab |-> merge_news_items(mA, mB),
                ba |-> merge_news_items(mB, mA),
                ab_b |-> merge_news_items(merge_news_items(mA, mB), mB),
                a_bc |-> merge_news_items(mA, merge_news_items(mB, mC)),
                ab_c |-> merge_news_items(merge_news_items(mA, mB), mC)]
    /\ UNCHANGED <<pvars, mA, mB, mC, avars>>

MergeFacts ==
    /\ mOut.kind = "facts" /\ ~mOut.done
    /\ mOut' = [kind |-> "facts", done |-> TRUE,
                ab |-> merge_facts(mA, mB),
                ba |-> merge_facts(mB, mA),
                ab_b |-> merge_facts(merge_facts(mA, mB), mB),
                a_bc |-> merge_facts(mA, merge_facts(mB, mC)),
                ab_c |-> merge_facts(merge_facts(mA, mB), mC)]
    /\ UNCHANGED <<pvars, mA, mB, mC, avars>>

NextMerge == MergeNews \/ MergeFacts

SpecMerge == InitMerge /\ [][NextMerge]_vars

\* C8: merging b into merge(a, b) once more changes nothing, for
\* merge_news_items and for merge_facts.
C8_MergeIdempotent == mOut.done => mOut.ab_b = mOut.ab

\* C9: merge(a, b) equals merge(b, a), for merge_news_items and for
\* merge_facts.
C9_MergeCommutative == mOut.done => mOut.ab = mOut.ba

\* C10: merge(a, merge(b, c)) equals merge(merge(a, b), c), for
\* merge_news_items and for merge_facts.
C10_MergeAssociative == mOut.done => mOut.a_bc = mOut.ab_c

\* C10 witness: three non-empty news lists merged, of which some item was
\* dropped as already seen and some item without URL was kept
C10_Witness ==
    /\ mOut.done /\ mOut.kind = "news"
    /\ mA # <<>> /\ mB # <<>> /\ mC # <<>>
    /\ Len(mOut.ab_c) < Len(mA) + Len(mB) + Len(mC)
    /\ Len(mOut.ab_c) > Len(mA)
    /\ \E i \in 1..Len(mC) : mC[i].source_url = ""

(***************************************************************************)
(* config.py: the operations of AgentConfigManager.  ret is what the call  *)
(* returned: a value, None, or the exception it raised.                    *)
(***************************************************************************)
Returned(api, value) == [api |-> api, kind |-> "return", value |-> value]
Raised(api, exc) == [api |-> api, kind |-> "raise", exc |-> exc]

\* update_agent(agent_id, updates): updates is a record of AgentConfig fields
UpdateAgent(api, a, updates) ==
    /\ IF ~get_agent(agents, a).configured
       THEN /\ ret' = Raised(api, "ValueError")
            /\ UNCHANGED agents
       ELSE LET updated == [k \in DOMAIN agents[a] |->
                               IF k \in DOMAIN updates THEN updates[k] ELSE agents[a][k]]
            IN /\ agents' = [agents EXCEPT ![a] = updated]
               /\ ret' = IF api = "update_agent" THEN Returned(api, updated)
                         ELSE Returned(api, "None")
    /\ UNCHANGED <<flow, handlers, batch, pvars, mvars>>

enable_agent(a) == UpdateAgent("enable_agent", a, [enabled |-> TRUE])

disable_agent(a) == UpdateAgent("disable_agent", a, [enabled |-> FALSE])

update_agent(a, updates) == UpdateAgent("update_agent", a, updates)

\* register_agent(config) with no handler: config is the id and the fields
register_agent(a, config) ==
    /\ agents' = [agents EXCEPT ![a] = config]
    /\ ret' = Returned("register_agent", "None")
    /\ UNCHANGED <<flow, handlers, batch, pvars, mvars>>

\* update_pipeline_flow({"flow": fl})
update_pipeline_flow(fl) ==
    /\ flow' = fl
    /\ ret' = Returned("update_pipeline_flow", fl)
    /\ UNCHANGED <<agents, handlers, batch, pvars, mvars>>

\* import_config(config): config.agents maps some ids to configurations,
\* config.pipeline_flow is a list of flows that is empty when the key is absent
import_config(config) ==
    /\ agents' = [a \in DOMAIN agents |->
                     IF a \in DOMAIN config.agents THEN config.agents[a] ELSE agents[a]]
    /\ flow' = IF config.pipeline_flow # <<>> THEN config.pipeline_flow[1] ELSE flow
    /\ ret' = Returned("import_config", "None")
    /\ UNCHANGED <<handlers, batch, pvars, mvars>>

GetExecutionOrder ==
    /\ ret' = Returned("get_execution_order", get_execution_order(agents, flow))
    /\ UNCHANGED <<agents, flow, handlers, batch, pvars, mvars>>

\* the inputs of the configuration calls
ConfigIds == {"categorize", "synthesize_local", "generate_scripts", "ghost"}

UpdateInputs ==
    { [enabled |-> FALSE], [enabled |-> TRUE],
      [depends_on |-> <<>>], [depends_on |-> <<"generate_scripts">>] }

CustomFlow ==
    << Single("generate_scripts"), Group(<<"synthesize_local", "custom">>),
       Single("categorize") >>

FlowInputs == {DEFAULT_PIPELINE_FLOW, CustomFlow}

ImportInputs ==
    { [agents |-> [a \in {"synthesize_ai"} |-> AgentConfig(FALSE, <<"categorize">>)],
       pipeline_flow |-> <<>>],
      [agents |-> <<>>, pipeline_flow |-> << CustomFlow >>] }

NextConfig ==
    \/ \E a \in ConfigIds, updates \in UpdateInputs : update_agent(a, updates)
    \/ \E a \in ConfigIds : enable_agent(a)
    \/ \E a \in ConfigIds : disable_agent(a)
    \/ register_agent("custom", AgentConfig(TRUE, <<"publish">>))
    \/ \E fl \in FlowInputs : update_pipeline_flow(fl)
    \/ \E config \in ImportInputs : import_config(config)
    \/ GetExecutionOrder

SpecConfig == Init /\ [][NextConfig]_vars

(***************************************************************************)
(* registry.py: AgentRegistry.  A task is one execute(agent_id, state)     *)
(* coroutine: it raises or returns at once, or awaits its handler under    *)
(* wait_for; the handler then returns a partial state, runs into the       *)
(* timeout or throws.  No custom handler is held by the config manager.    *)
(***************************************************************************)
MaxBatch == 2   \* agent ids handed to one execute_parallel call

\* the agent ids the registry is called with
RegistryIds == {"synthesize_local", "synthesize_business", "ghost"}

\* partial states a handler may return
Partials ==
    { [news_items |-> << [source_url |-> "u1", id |-> "n1"] >>],
      [news_items |-> << [source_url |-> "u2", id |-> "n3"] >>,
       status |-> "categorizing"] }

\* the agents handlers are registered for while batches run ("ghost" has no
\* configuration, so that execute raises before it looks for a handler)
HandledIds == {"synthesize_local", "synthesize_business"}

\* the agent the registry's callers switch off and on
SwitchedIds == {"synthesize_business"}

Batches == UNION {[1..n -> RegistryIds] : n \in 1..MaxBatch}

\* at is the position of the task in the order in which the awaited handlers
\* came to their end (0: the task ended without awaiting a handler)
Task(status, outcome, result, exc) ==
    [status |-> status, outcome |-> outcome, result |-> result, exc |-> exc,
     at |-> 0]

\* execute up to the call of the handler
ExecuteEnter(ag, hs, a) ==
    IF ~get_agent(ag, a).configured
    THEN Task("raised", "none", <<>>, "ValueError: Agent not found in configuration")
    ELSE IF ~get_agent(ag, a).enabled
    THEN Task("returned", "none", <<>>, "")
    ELSE IF a \notin DOMAIN hs
    THEN Task("raised", "none", <<>>, "ValueError: No handler registered for agent")
    ELSE Task("awaiting", "none", <<>>, "")

\* a try block that lets the handler's exception escape
execute_outcome_reraise(outcome, out) ==
    CASE outcome = "result" -> Task("returned", outcome, out, "")
      [] outcome = "timeout" -> Task("returned", outcome, [error |-> "timed out"], "")
      [] outcome = "exception" -> Task("raised", outcome, <<>>, "handler exception")

\* the try block of execute: the awaited handler returns out, times out or
\* throws
execute_outcome(outcome, out) ==
    CASE outcome = "result" -> Task("returned", outcome, out, "")
      [] outcome = "timeout" -> Task("returned", outcome, [error |-> "timed out"], "")
      [] outcome = "exception" -> Task("returned", outcome, [error |-> "handler exception"], "")

RECURSIVE MergeUpdate(_, _)
\* the merge loop of execute_parallel: dict.update per result, in batch order
MergeUpdate(merged, results) ==
    IF results = <<>> THEN merged
    ELSE LET r == Head(results)
         IN MergeUpdate(IF r.status = "raised"
                        THEN [error |-> r.exc] @@ merged
                        ELSE r.result @@ merged,
                        Tail(results))

\* a gather that passes the first exception on to the caller
gather_fail_fast(ids, results) ==
    IF \E i \in 1..Len(results) : results[i].status = "raised"
    THEN [api |-> "execute_parallel", kind |-> "raise", exc |-> "first exception",
          ids |-> ids, results |-> results]
    ELSE [api |-> "execute_parallel", kind |-> "return",
          value |-> MergeUpdate(<<>>, results), ids |-> ids, results |-> results]

\* the results in the order in which the tasks came to their end
ByFinish(results) ==
    LET n == Len(results)
        p == CHOOSE q \in [1..n -> 1..n] :
                \A i, j \in 1..n :
                    i < j => \/ results[q[i]].at < results[q[j]].at
                             \/ /\ results[q[i]].at = results[q[j]].at
                                /\ q[i] < q[j]
    IN [i \in 1..n |-> results[p[i]]]

\* a merge that takes the results as they complete
gather_as_completed(ids, results) ==
    [api |-> "execute_parallel", kind |-> "return",
     value |-> MergeUpdate(<<>>, ByFinish(results)), ids |-> ids, results |-> results]

\* asyncio.gather(*tasks, return_exceptions=True) and the merge after it: the
\* results come in the order of agent_ids
gather(ids, results) ==
    [api |-> "execute_parallel", kind |-> "return",
     value |-> MergeUpdate(<<>>, results), ids |-> ids, results |-> results]

\* the handler functions given to register
Handlers == {"h1", "h2", "h3"}

\* a registration that keeps the handler an id already has
set_handler_keep_first(hs, a, h) ==
    [x \in DOMAIN hs \cup {a} |-> IF x \in DOMAIN hs THEN hs[x] ELSE h]

\* self._handlers[agent_id] = fn
set_handler(hs, a, h) ==
    [x \in DOMAIN hs \cup {a} |-> IF x = a THEN h ELSE hs[x]]

\* self._handlers.get(agent_id)
get_handler(hs, a) == IF a \in DOMAIN hs THEN hs[a] ELSE "None"

\* register(agent_id, handler): the handler is stored and returned; before
\* records the registry the call was made on
register(a, h) ==
    /\ handlers' = set_handler(handlers, a, h)
    /\ ret' = [api |-> "register", kind |-> "return", value |-> h,
               id |-> a, before |-> handlers]
    /\ UNCHANGED <<agents, flow, batch, pvars, mvars>>

unregister(a) ==
    /\ handlers' = [x \in DOMAIN handlers \ {a} |-> handlers[x]]
    /\ ret' = Returned("unregister", a \in DOMAIN handlers)
    /\ UNCHANGED <<agents, flow, batch, pvars, mvars>>

GetHandler(a) ==
    /\ ret' = [api |-> "get_handler", kind |-> "return",
               value |-> get_handler(handlers, a), id |-> a]
    /\ UNCHANGED <<agents, flow, handlers, batch, pvars, mvars>>

execute(a) ==
    /\ batch.api = "none"
    /\ batch' = [api |-> "execute", ids |-> << a >>,
                 tasks |-> << ExecuteEnter(agents, handlers, a) >>]
    /\ ret' = NoReturn
    /\ UNCHANGED <<agents, flow, handlers, pvars, mvars>>

execute_parallel(agent_ids) ==
    /\ batch.api = "none"
    /\ batch' = [api |-> "execute_parallel", ids |-> agent_ids,
                 tasks |-> [i \in 1..Len(agent_ids) |->
                               ExecuteEnter(agents, handlers, agent_ids[i])]]
    /\ ret' = NoReturn
    /\ UNCHANGED <<agents, flow, handlers, pvars, mvars>>

\* the handler awaited by task i comes to its end
HandlerDone(i, outcome, out) ==
    /\ i \in 1..Len(batch.tasks)
    /\ batch.tasks[i].status = "awaiting"
    /\ batch' = [batch EXCEPT !.tasks[i] =
                    [execute_outcome(outcome, out) EXCEPT
                        !.at = 1 + Cardinality({j \in 1..Len(batch.tasks) :
                                                  batch.tasks[j].at > 0})]]
    /\ UNCHANGED <<agents, flow, handlers, ret, pvars, mvars>>

AllDone == \A i \in 1..Len(batch.tasks) : batch.tasks[i].status # "awaiting"

ExecuteReturn ==
    /\ batch.api = "execute" /\ AllDone
    /\ ret' = [api |-> "execute",
               kind |-> IF batch.tasks[1].status = "raised" THEN "raise" ELSE "return",
               value |-> batch.tasks[1].result,
               ids |-> batch.ids, results |-> batch.tasks]
    /\ batch' = NoBatch
    /\ UNCHANGED <<agents, flow, handlers, pvars, mvars>>

Gather ==
    /\ batch.api = "execute_parallel" /\ AllDone
    /\ ret' = gather(batch.ids, batch.tasks)
    /\ batch' = NoBatch
    /\ UNCHANGED <<agents, flow, handlers, pvars, mvars>>

NextRegistry ==
    \/ \E a \in HandledIds : register(a, "h1")
    \/ \E a \in HandledIds : unregister(a)
    \/ \E a \in SwitchedIds : disable_agent(a)
    \/ \E a \in SwitchedIds : enable_agent(a)
    \/ \E a \in RegistryIds : execute(a)
    \/ \E agent_ids \in Batches : execute_parallel(agent_ids)
    \/ \E i \in 1..MaxBatch, out \in Partials : HandlerDone(i, "result", out)
    \/ \E i \in 1..MaxBatch, outcome \in {"timeout", "exception"} :
            HandlerDone(i, outcome, <<>>)
    \/ ExecuteReturn
    \/ Gather

SpecRegistry == Init /\ [][NextRegistry]_vars

\* the registrations on their own: handlers are registered, replaced, removed
\* and looked up
NextHandlers ==
    \/ \E a \in RegistryIds, h \in Handlers : register(a, h)
    \/ \E a \in RegistryIds : unregister(a)
    \/ \E a \in RegistryIds : GetHandler(a)

SpecHandlers == Init /\ [][NextHandlers]_vars

(***************************************************************************)
(* Properties of the registry                                              *)
(***************************************************************************)
\* the fields whose merge policy is append-unique
AppendUnique == {"news_items", "extracted_facts"}

\* task r came to an end without a result of its handler
Failed(r) == r.status = "raised" \/ r.outcome \in {"timeout", "exception"}

\* C12: in what execute_parallel returns, an append-unique list field holds
\* the elements of every agent of the batch that returned that field.
C12_ParallelMergeKeepsAll ==
    (ret.api = "execute_parallel" /\ ret.kind = "return") =>
        \A i \in 1..Len(ret.results) :
            ret.results[i].status = "returned" =>
                \A f \in DOMAIN ret.results[i].result \cap AppendUnique :
                    /\ f \in DOMAIN ret.value
                    /\ \A j \in 1..Len(ret.results[i].result[f]) :
                          \E k \in 1..Len(ret.value[f]) :
                              ret.value[f][k] = ret.results[i].result[f][j]

\* C13: execute_parallel returns a merged result whatever its agents did;
\* every task of the batch has come to its own end, and every field a task
\* returned is a field of the merged result, with the task's value when no
\* other task of the batch returned that field.
C13_FailureIsolated ==
    ret.api = "execute_parallel" =>
        /\ ret.kind = "return"
        /\ \A i \in 1..Len(ret.results) :
              /\ ret.results[i].status \in {"returned", "raised"}
              /\ ret.results[i].status = "returned" =>
                    \A f \in DOMAIN ret.results[i].result :
                        /\ f \in DOMAIN ret.value
                        /\ (\A j \in 1..Len(ret.results) :
                                (j # i /\ ret.results[j].status = "returned")
                                    => f \notin DOMAIN ret.results[j].result)
                           => (f = "error" \/ ret.value[f] = ret.results[i].result[f])

\* C13 witness: a batch has returned in which the first agent raised, the
\* second agent's handler returned fields, and the result holds them
C13_Witness ==
    /\ ret.api = "execute_parallel" /\ ret.kind = "return"
    /\ Len(ret.results) = 2
    /\ ret.results[1].status = "raised"
    /\ ret.results[2].outcome = "result"
    /\ "news_items" \in DOMAIN ret.value
    /\ "error" \in DOMAIN ret.value

\* C14: execute on a configured, enabled agent with a handler, whose handler
\* ran into the timeout or threw, returns a partial state whose only field is
\* error.
C14_ExecuteNeverRaises ==
    (ret.api = "execute" /\ ret.results[1].outcome \in {"timeout", "exception"}) =>
        /\ ret.kind = "return"
        /\ DOMAIN ret.value = {"error"}

\* C14 witness: execute has returned after its handler threw
C14_Witness ==
    /\ ret.api = "execute"
    /\ ret.results[1].outcome = "exception"
    /\ IsEnabled(agents, ret.ids[1]) /\ ret.ids[1] \in DOMAIN handlers

\* C14 witness for the timeout
C14_WitnessTimeout ==
    /\ ret.api = "execute"
    /\ ret.results[1].outcome = "timeout"

\* the error a failed task hands to the merge
ErrorOf(r) == IF r.status = "raised" THEN r.exc ELSE r.result.error

\* the tasks of a returned batch that failed, by position in agent_ids
Failing(results) == {i \in 1..Len(results) : Failed(results[i])}

\* C29: what execute_parallel returns is the merge of its tasks' results in
\* the order of agent_ids, whatever the order in which the handlers came to
\* their end; when tasks failed, the error kept is that of the failed task
\* listed last.
C29_ResultIgnoresFinishOrder ==
    (ret.api = "execute_parallel" /\ ret.kind = "return") =>
        /\ ret.value = MergeUpdate(<<>>, ret.results)
        /\ Failing(ret.results) # {} =>
              /\ "error" \in DOMAIN ret.value
              /\ \E i \in Failing(ret.results) :
                    /\ \A j \in Failing(ret.results) : j <= i
                    /\ ret.value.error = ErrorOf(ret.results[i])

\* C29 witness: a batch has returned in which two handlers failed, with
\* different errors, the one listed last coming to its end first, and the
\* error kept is that of the one listed last
C29_Witness ==
    /\ ret.api = "execute_parallel" /\ ret.kind = "return"
    /\ Len(ret.results) = 2
    /\ ret.results[1].outcome = "exception"
    /\ ret.results[2].outcome = "timeout"
    /\ ret.results[2].at < ret.results[1].at
    /\ ret.value.error = ErrorOf(ret.results[2])
    /\ ErrorOf(ret.results[1]) # ErrorOf(ret.results[2])

\* C26: register(id, handler) returns; the handler then held for id is the one
\* just given, whatever was registered before, and the handlers of all other
\* ids are as they were; registering a pair the registry already holds leaves
\* the registry exactly as it was.
C26_RegisterIdempotent ==
    ret.api = "register" =>
        /\ ret.kind = "return"
        /\ ret.id \in DOMAIN handlers
        /\ handlers[ret.id] = ret.value
        /\ DOMAIN handlers = DOMAIN ret.before \cup {ret.id}
        /\ \A x \in DOMAIN handlers \ {ret.id} : handlers[x] = ret.before[x]
        /\ (ret.id \in DOMAIN ret.before /\ ret.before[ret.id] = ret.value) =>
                handlers = ret.before
        /\ set_handler(handlers, ret.id, ret.value) = handlers

\* C26 witness: an id that had a handler was registered with another one,
\* next to a second registered id, and the handler held is the new one
C26_Witness ==
    /\ ret.api = "register"
    /\ ret.id \in DOMAIN ret.before
    /\ ret.before[ret.id] # ret.value
    /\ handlers[ret.id] = ret.value
    /\ DOMAIN handlers # {ret.id}

\* the same pair registered a second time
C26_WitnessTwice ==
    /\ ret.api = "register"
    /\ ret.id \in DOMAIN ret.before
    /\ ret.before[ret.id] = ret.value
    /\ handlers = ret.before

(***************************************************************************)
(* Properties of the configuration manager                                 *)
(***************************************************************************)
\* the elements of a list, and a list of lists written out as one list
Range(l) == {l[i] : i \in 1..Len(l)}

RECURSIVE Flatten(_)
Flatten(ll) == IF ll = <<>> THEN <<>> ELSE Head(ll) \o Flatten(Tail(ll))

\* the agent ids a flow names, in flow order
FlowIds(fl) == Flatten([i \in 1..Len(fl) |-> fl[i].ids])

\* the stages of an order that list agent a
StagesOf(order, a) == {i \in 1..Len(order) : a \in Range(order[i])}

\* the configured agents that a reaches through depends_on in 1..n steps
RECURSIVE DependsWithin(_, _, _)
DependsWithin(ag, a, n) ==
    LET direct == {d \in Range(get_agent(ag, a).depends_on) : IsConfigured(ag, d)}
    IN IF n <= 1 THEN direct
       ELSE direct \cup UNION {DependsWithin(ag, d, n - 1) : d \in direct}

\* the depends_on declarations of the configured agents contain a cycle
HasCycle(ag) ==
    \E a \in DOMAIN ag :
        IsConfigured(ag, a) /\ a \in DependsWithin(ag, a, Cardinality(DOMAIN ag))

\* get_execution_order has returned for the configuration held now
OrderReturned == ret.api = "get_execution_order" /\ ret.kind = "return"

\* C15: in the order get_execution_order returns, every listed agent stands
\* in a stage strictly later than the stages of the agents its depends_on
\* names.
C15_OrderRespectsDependsOn ==
    OrderReturned =>
        \A i \in 1..Len(ret.value) : \A a \in Range(ret.value[i]) :
            \A d \in Range(get_agent(agents, a).depends_on) :
                \A j \in StagesOf(ret.value, d) : j < i

\* C16: when the depends_on declarations contain a cycle, a call of
\* get_execution_order ends with the error CyclicGraph and returns no order.
C16_CycleRejected ==
    (ret.api = "get_execution_order" /\ HasCycle(agents)) =>
        (ret.kind = "raise" /\ ret.exc = "CyclicGraph")

\* agent a is held by the manager with its enabled flag set
EnabledNow(a) == a \in DOMAIN agents /\ agents[a].configured /\ agents[a].enabled

\* C17: the order get_execution_order returns lists no disabled agent, and
\* written out as one list it is the list of the flow's agent ids with the
\* agents that are not enabled left out, whatever those agents depend on;
\* no stage is empty.
C17_DisabledSkippedOnly ==
    OrderReturned =>
        /\ \A i \in 1..Len(ret.value) :
              /\ ret.value[i] # <<>>
              /\ \A a \in Range(ret.value[i]) : EnabledNow(a)
        /\ Flatten(ret.value) = SelectSeq(FlowIds(flow), EnabledNow)

\* C17 witness: an order was returned while categorize is disabled; it lists
\* the agents that depend on categorize and not categorize
C17_Witness ==
    /\ OrderReturned
    /\ agents["categorize"].configured /\ ~agents["categorize"].enabled
    /\ "categorize" \in Range(FlowIds(flow))
    /\ \E a \in Range(Flatten(ret.value)) :
          "categorize" \in Range(agents[a].depends_on)

(***************************************************************************)
(* Calls that overlap: two call slots on one thread.  Each API call is a   *)
(* coroutine of its own; between two of its steps the other may run.       *)
(***************************************************************************)
OverlapCalls == 3   \* API calls per behaviour: the start and two reviews

OverlapSlots == {"s1", "s2"}

RECURSIVE RunOk(_, _, _, _)
\* the supersteps of invocation number no from step on, every collaborator
\* answering, until no node is scheduled
RunOk(values, next, no, step) ==
    IF next = {} THEN values
    ELSE LET order == SelectSeq(NodeOrder, LAMBDA n : n \in next)
             writes == [i \in 1..Len(order) |->
                           RunNode(order[i], values, TRUE, Uuid(no, step + 1)).writes]
             after == ApplyWrites(values, writes)
         IN RunOk(after, UNION {Successors(n, after) : n \in next}, no, step + 1)

\* the checkpoint a first start_briefing leaves when it returns
PausedAfterStart(t) ==
    [exists |-> TRUE,
     values |-> RunOk(ApplyWrite(EmptyChannels, create_initial_state(t)),
                      Successors("__start__", EmptyChannels), 1, 0),
     next |-> {}]

\* start_briefing has returned on every thread: the threads are paused at
\* the script gate, and no call is in flight
InitOverlap ==
    /\ checkpoint = [t \in Threads |-> PausedAfterStart(t)]
    /\ calls = [c \in OverlapSlots |-> Idle]
    /\ submitted = [t \in Threads |-> [reviews |-> 0, rejections |-> 0]]
    /\ nCalls = 1
    /\ restarts = 0
    /\ mA = <<>> /\ mB = <<>> /\ mC = <<>>
    /\ mOut = [kind |-> "none", done |-> FALSE]
    /\ AgentsInit

\* script reviews submitted by two clients, the collaborators all answering
NextOverlap ==
    \/ \E c \in DOMAIN calls, t \in DOMAIN checkpoint, approved \in BOOLEAN :
            SubmitScriptReview(c, t, approved) /\ nCalls' <= OverlapCalls
    \/ \E c \in DOMAIN calls : EntryStep(c)
    \/ \E c \in DOMAIN calls : Superstep(c, TRUE, TRUE)
    \/ \E c \in DOMAIN calls : RecursionError(c)

SpecOverlap == InitOverlap /\ [][NextOverlap]_vars

\* the checkpoint the overlap behaviours start from is the one a first
\* start_briefing leaves
StartLeavesPausedCheckpoint ==
    \A c \in DOMAIN calls :
        FirstStartDone(c) => checkpoint[calls[c].thread] = PausedAfterStart(calls[c].thread)

\* C19: when two script rejections on one thread have both ended, the second
\* submitted while the first, made on the thread paused at the script gate,
\* was in flight, revision_count stands 2 above its value before the first.
C19_NoLostUpdate ==
    \A c1, c2 \in DOMAIN calls :
        (/\ c1 # c2
         /\ calls[c1].api = "script" /\ ~calls[c1].approved
         /\ calls[c2].api = "script" /\ ~calls[c2].approved
         /\ calls[c1].thread = calls[c2].thread
         /\ calls[c1].paused_at = "script" /\ calls[c1].during = {}
         /\ calls[c1].no \in calls[c2].during
         /\ calls[c1].phase # "running" /\ calls[c2].phase # "running") =>
            GetRevisionCount(get_state(calls[c1].thread))
                = calls[c1].input.revision_count + 1

(***************************************************************************)
(* Process restarts: the pipeline object, and with it the MemorySaver, is  *)
(* built anew; the calls that were in flight are gone.                     *)
(***************************************************************************)
MaxRestarts == 1    \* restarts per behaviour
RestartCalls == 3   \* API calls per behaviour when the process may restart

Restart ==
    /\ restarts < MaxRestarts
    /\ restarts' = restarts + 1
    /\ checkpoint' = [t \in DOMAIN checkpoint |-> NoCheckpoint]
    /\ calls' = [c \in DOMAIN calls |-> Idle]
    /\ UNCHANGED <<submitted, nCalls, mvars, avars>>

NextRestart ==
    \/ Next /\ nCalls' <= RestartCalls
    \/ Restart

SpecRestart == Init /\ [][NextRestart]_vars

\* C20: a restart of the process leaves a thread that is paused at a gate
\* as it was: get_state of the new pipeline returns the state the old one
\* held, and the thread is still paused at that gate.
C20_PausedSurvivesRestart ==
    [][\A t \in DOMAIN checkpoint :
          (restarts' = restarts + 1 /\ PausedAt(t) # "none") =>
              /\ HasState(t)'
              /\ get_state(t)' = get_state(t)
              /\ PausedAt(t)' = PausedAt(t)]_vars

(***************************************************************************)
(* Two threads: the calls of two clients, each on a thread of its own, the *)
(* collaborators all answering.                                            *)
(***************************************************************************)
ThreadCalls == 3   \* API calls per behaviour when two threads are in use

TwoThreads == {"2026-W01-en-SG", "2026-W02-en-SG"}

InitThreads ==
    /\ checkpoint = [t \in TwoThreads |-> NoCheckpoint]
    /\ calls = [c \in OverlapSlots |-> Idle]
    /\ submitted = [t \in TwoThreads |-> [reviews |-> 0, rejections |-> 0]]
    /\ nCalls = 0
    /\ restarts = 0
    /\ mA = <<>> /\ mB = <<>> /\ mC = <<>>
    /\ mOut = [kind |-> "none", done |-> FALSE]
    /\ AgentsInit

\* the thread each client works on
ThreadOf == [c \in OverlapSlots |->
                IF c = "s1" THEN "2026-W01-en-SG" ELSE "2026-W02-en-SG"]

\* each client calls the API for its own thread; the reviews submitted are
\* approvals, so no invocation reaches the step limit
NextThreads ==
    \/ \E c \in DOMAIN calls :
            StartBriefing(c, ThreadOf[c]) /\ nCalls' <= ThreadCalls
    \/ \E c \in DOMAIN calls :
            SubmitScriptReview(c, ThreadOf[c], TRUE) /\ nCalls' <= ThreadCalls
    \/ \E c \in DOMAIN calls :
            SubmitVideoReview(c, ThreadOf[c], TRUE) /\ nCalls' <= ThreadCalls
    \/ \E c \in DOMAIN calls : EntryStep(c)
    \/ \E c \in DOMAIN calls : Superstep(c, TRUE, TRUE)

SpecThreads == InitThreads /\ [][NextThreads]_vars

\* C23: a step changes the checkpoint of a thread only when it is a step of
\* a call in flight on that thread; the checkpoints of all other threads stay
\* as they are.
C23_ThreadsIndependent ==
    [][\A t \in DOMAIN checkpoint :
          checkpoint'[t] # checkpoint[t] =>
              \E c \in DOMAIN calls :
                  /\ calls[c].phase = "running" /\ calls[c].thread = t
                  /\ calls'[c] # calls[c]
                  /\ \A u \in DOMAIN checkpoint \ {t} : checkpoint'[u] = checkpoint[u]]_vars

\* C23 witness: two calls on different threads are in flight, both having
\* run nodes, and each thread holds the state of its own run
C23_Witness ==
    \E c, d \in DOMAIN calls :
        /\ calls[c].phase = "running" /\ calls[d].phase = "running"
        /\ calls[c].thread # calls[d].thread
        /\ Len(calls[c].trace) >= 2 /\ Len(calls[d].trace) >= 2
        /\ get_state(calls[c].thread).thread_id = calls[c].thread
        /\ get_state(calls[d].thread).thread_id = calls[d].thread

====
